---- MODULE Spec2Model ----
(***************************************************************************)
(* Call dispatch of the callable variables of the symbolic opcode          *)
(* translator (sot/opcode_translator/executor/variables/callable.py).      *)
(*                                                                         *)
(* The state is the trace under construction (the FunctionGraph), the      *)
(* stack of inline executors opened by UserDefinedFunctionVariable         *)
(* .call_function, the exception in flight, and the outcome the            *)
(* interpreter's call instruction ended with.  Every call_function of the  *)
(* file is an operator computed the way the code computes it; the actions  *)
(* are the call instruction of the interpreter and of an inline executor,  *)
(* the steps of an inline executor and the except clause of                *)
(* UserDefinedFunctionVariable.call_function.                              *)
(***************************************************************************)
EXTENDS Naturals, Sequences, FiniteSets, TLC

\* Deepest nesting of inline calls explored.
MaxDepth == 2
\* Largest number of entries (statements and print variables) in the trace.
MaxStmts == 2
\* Largest number of Variables constructed in one trace.
MaxVars == 5
\* Largest number of host values the factory is asked to resolve in a row.
MaxResolved == 2

-----------------------------------------------------------------------------
(* Guest values and the Variables that wrap them *)

\* A Variable: the runtime type of the wrapped value and the value itself.
Var(ty, v) == [ty |-> ty, value |-> v]

\* ConstantVariable.wrap_literal(None, graph)
NoneVar == Var("NoneType", 0)

\* The special methods each guest class defines (hasattr(arg_type, name)).
TypeAttrs(ty) ==
    CASE ty = "Fwd" -> {"__add__"}
      [] ty = "Rev" -> {"__radd__"}
      [] ty = "Both" -> {"__add__", "__radd__"}
      [] OTHER -> {}

hasattr(ty, name) == name \in TypeAttrs(ty)

\* The operands a guest program passes: one instance per guest class.
Operands == {Var("Plain", 0), Var("Fwd", 1), Var("Rev", 2), Var("Both", 3)}

\* Positional argument lists: none, one or two operands.
ArgLists ==
    {<<>>} \cup {<<a>> : a \in Operands} \cup {<<a, b>> : a \in Operands, b \in Operands}

\* Keyword arguments: a set of (key, Variable) entries.
KwargSets == {{}, {[key |-> "x", val |-> Var("Fwd", 1)]}}

\* args[::-1]
Reverse(s) == [i \in 1..Len(s) |-> s[Len(s) + 1 - i]]

\* The body of the guest classes' __add__ / __radd__: a positional
\* (non-commutative) combination of self and other, as string or list
\* concatenation is.  __add__(self, other) puts self first, __radd__(self,
\* other) puts other first.
SpecialMethodBody(name, self, other) ==
    IF name = "__radd__"
    THEN Var("Plain", other.value * Cardinality(Operands) + self.value)
    ELSE Var("Plain", self.value * Cardinality(Operands) + other.value)

SpecialMethods == {"__add__", "__radd__"}

-----------------------------------------------------------------------------
(* The trace (FunctionGraph) and its collaborators *)

EmptyGraph == [stmt_ir |-> <<>>, print_variables |-> 0]

GraphSize(g) == Len(g.stmt_ir) + g.print_variables

\* FunctionGraph.save_memo: the checkpoint token.
save_memo(g) == [stmt_ir |-> g.stmt_ir, print_variables |-> g.print_variables]

\* FunctionGraph.restore_memo: the trace becomes what the token holds.
restore_memo(g, memo) ==
    [g EXCEPT !.stmt_ir = memo.stmt_ir, !.print_variables = memo.print_variables]

\* One trace mutation applied to the graph.
Mutate(g, m) ==
    IF m = "add_print_variables"
    THEN [g EXCEPT !.print_variables = @ + 1]
    ELSE [g EXCEPT !.stmt_ir = Append(@, m)]

RECURSIVE MutateAll(_, _)
MutateAll(g, ms) ==
    IF ms = <<>> THEN g ELSE MutateAll(Mutate(g, Head(ms)), Tail(ms))

\* The symbolic Variable a graph-builder emission returns: the output of the
\* statement just appended.
EmittedVar(g) == Var("Tensor", Len(g.stmt_ir))

\* utils.is_break_graph_api / is_break_graph_tensor_methods
BreakGraphApis == {"map_structure"}
BreakGraphTensorMethods == {"numpy"}
is_break_graph_api(fn) == fn \in BreakGraphApis
is_break_graph_tensor_methods(method_name) == method_name \in BreakGraphTensorMethods

\* utils.magic_method_builtin_dispatch: the candidate special methods of a
\* builtin, in table order.
magic_method_builtin_dispatch(fn) ==
    CASE fn = "add" -> << [name |-> "__add__", is_reverse |-> FALSE],
                          [name |-> "__radd__", is_reverse |-> TRUE] >>
      [] fn = "len" -> << [name |-> "__len__", is_reverse |-> FALSE] >>
      [] OTHER -> <<>>

\* The handler table of the Dispatcher: (builtin, operand types).
HandlerTable == {<<"add", <<"Both", "Both">>>>}

ArgTypes(args) == [i \in 1..Len(args) |-> args[i].ty]

\* Dispatcher.dispatch(fn, *args, **kwargs) is not None
Dispatcher_dispatch(fn, args, kwargs) ==
    kwargs = {} /\ <<fn, ArgTypes(args)>> \in HandlerTable

\* The handler found by the dispatcher, applied: constant addition.
handler(fn, args, kwargs) == Var("Both", args[1].value + args[2].value)

\* utils.ASSERT(input): assert input
ASSERT_passes(input) == input # 0

\* Parameters the generator functions require.
GeneratorArity(fn) == IF fn = "gen1" THEN 1 ELSE 0

-----------------------------------------------------------------------------
(* What a call_function ends with *)

NoMagic == [name |-> "none", is_reverse |-> FALSE, owner |-> "none"]

\* kind: "return" (a Variable), "raise" (an exception), "inline" (an inline
\* executor is to be run on code with args and kwargs, under checkpoint).
\* tier/magic: the tier of BuiltinVariable that decided; emits: the number of
\* graph-builder emissions made; via: the variant that delegated the call.
Base(g) ==
    [kind |-> "return", exc |-> "none", reason |-> "", result |-> NoneVar,
     graph |-> g, emits |-> 0, tier |-> "na", magic |-> NoMagic,
     code |-> "none", args |-> <<>>, kwargs |-> {}, checkpoint |-> save_memo(g),
     via |-> "direct"]

Return(result, g, emits) == [Base(g) EXCEPT !.result = result, !.emits = emits]

Raise(exc, reason, g) == [Base(g) EXCEPT !.kind = "raise", !.exc = exc, !.reason = reason]

Inline(code, args, kwargs, g, checkpoint) ==
    [Base(g) EXCEPT !.kind = "inline", !.code = code, !.args = args,
                    !.kwargs = kwargs, !.checkpoint = checkpoint]

\* handle_psdb_function returned None
NotPsdb(g) == [Base(g) EXCEPT !.kind = "None"]

-----------------------------------------------------------------------------
(* UserDefinedFunctionVariable *)

\* UserDefinedFunctionVariable.handle_psdb_function: the debug intrinsics run
\* at once on the materialized arguments; any other callee yields None.
handle_psdb_function(fn, args, kwargs, g) ==
    IF fn = "ASSERT"
    THEN IF Len(args) = 0
         THEN Raise("IndexError", "tuple index out of range", g)
         ELSE IF ASSERT_passes(args[1].value)
              THEN Return(NoneVar, g, 0)
              ELSE Raise("AssertionError", "", g)
    ELSE IF fn = "psdb_print"
    THEN Return(NoneVar, Mutate(g, "add_print_variables"), 0)
    ELSE IF fn = "psdb_breakpoint"
    THEN Return(NoneVar, g, 0)
    ELSE NotPsdb(g)

\* UserDefinedFunctionVariable.call_function up to the try statement: the
\* debug intrinsics return at once; otherwise the checkpoint is taken and an
\* inline executor is to be constructed over (self, *args, **kwargs).
UserDefinedFunctionVariable_call_function(fn, args, kwargs, g) ==
    LET result == handle_psdb_function(fn, args, kwargs, g)
    IN  IF result.kind # "None"
        THEN result
        ELSE Inline(fn, args, kwargs, g, save_memo(g))

\* BreakGraphError(msg)
BreakGraphError(msg) == [kind |-> "BreakGraphError", reason |-> msg]

\* A handler that re-raises without restoring the checkpoint.
except_without_restore(frame, g, e) ==
    [graph |-> g,
     raised |-> BreakGraphError(frame.code \o " is raise a inline call error. " \o e.reason)]

\* A handler that restores the checkpoint and then swallows the failure.
except_swallow(frame, g, e) ==
    [graph |-> restore_memo(g, frame.checkpoint),
     raised |-> [kind |-> "none", reason |-> ""]]

\* The except clause of UserDefinedFunctionVariable.call_function:
\* restore_memo(checkpoint), then raise BreakGraphError naming the callee
\* and the cause.
except_FallbackErrorBase(frame, g, e) ==
    [graph |-> restore_memo(g, frame.checkpoint),
     raised |-> BreakGraphError(frame.code \o " is raise a inline call error. " \o e.reason)]

\* A success path that rolls the trace back, as a finally clause would.
return_output_restoring(frame, g, output) ==
    [graph |-> restore_memo(g, frame.checkpoint), result |-> output, restored |-> TRUE]

\* The success path of UserDefinedFunctionVariable.call_function: the output
\* of inline_call is returned and the checkpoint is dropped.
return_output(frame, g, output) ==
    [graph |-> g, result |-> output, restored |-> FALSE]

\* The exceptions the except clause catches (subclasses of FallbackErrorBase).
FallbackErrors == {"BreakGraphError", "NotImplementException"}

\* An except clause that names Exception: it catches whatever is raised.
except_Exception(e) == e.kind # "none"

\* except FallbackErrorBase as e: the clause matches the exceptions that are
\* instances of FallbackErrorBase, and no other.
except_clause_matches(e) == e.kind \in FallbackErrors

-----------------------------------------------------------------------------
(* PaddleApiVariable, TensorFunctionVariable, PaddleLayerVariable *)

\* An API call that emits the statement before consulting the classification.
PaddleApi_emit_first(fn, args, kwargs, g) ==
    LET g2 == Mutate(g, "call_paddle_api")
    IN  IF is_break_graph_api(fn)
        THEN Raise("BreakGraphError", "breakgraph by unsupport function: " \o fn, g2)
        ELSE Return(EmittedVar(g2), g2, 1)

\* PaddleApiVariable.call_function
PaddleApiVariable_call_function(fn, args, kwargs, g) ==
    IF is_break_graph_api(fn)
    THEN Raise("BreakGraphError", "breakgraph by unsupport function: " \o fn, g)
    ELSE LET g2 == Mutate(g, "call_paddle_api")
         IN  Return(EmittedVar(g2), g2, 1)

\* TensorFunctionVariable.call_function: BreakGraphError() is raised with no
\* argument, so its message is the empty string.
TensorFunctionVariable_call_function(method_name, args, kwargs, g) ==
    IF is_break_graph_tensor_methods(method_name)
    THEN Raise("BreakGraphError", "", g)
    ELSE LET g2 == Mutate(g, "call_tensor_method")
         IN  Return(EmittedVar(g2), g2, 1)

\* PaddleLayerVariable.call_function
PaddleLayerVariable_call_function(layer, args, kwargs, g) ==
    LET g2 == Mutate(g, "call_layer")
    IN  Return(EmittedVar(g2), g2, 1)

-----------------------------------------------------------------------------
(* BuiltinVariable *)

\* The retry of a resolved special method: fn_var(*args).
magic_retry(m, arg_type, args, kwargs, g) ==
    [UserDefinedFunctionVariable_call_function(m.name, args, {}, g)
        EXCEPT !.tier = "magic",
               !.magic = [name |-> m.name, is_reverse |-> m.is_reverse, owner |-> arg_type],
               !.via = "builtin"]

\* A scan that keeps the last candidate that matches instead of the first.
RECURSIVE magic_scan_last(_, _, _, _, _, _)
magic_scan_last(fn, magic_methods, i, args, kwargs, g) ==
    IF i > Len(magic_methods)
    THEN [Raise("BreakGraphError", "Not support builtin function: " \o fn, g)
            EXCEPT !.tier = "break"]
    ELSE LET magic_method == magic_methods[i]
             sorted_args == IF magic_method.is_reverse THEN Reverse(args) ELSE args
             rest == magic_scan_last(fn, magic_methods, i + 1, args, kwargs, g)
         IN  IF Len(sorted_args) = 0
             THEN [Raise("IndexError", "tuple index out of range", g) EXCEPT !.tier = "magic_scan"]
             ELSE IF hasattr(sorted_args[1].ty, magic_method.name) /\ rest.tier # "magic"
                  THEN magic_retry(magic_method, sorted_args[1].ty, args, kwargs, g)
                  ELSE rest

\* The for loop of BuiltinVariable.call_function from candidate i on: the
\* operands are reversed for a reflected name before the type of the first
\* one is looked at; the first candidate its type defines is resolved and
\* called with args; with no candidate left the builtin breaks the graph.
RECURSIVE magic_scan(_, _, _, _, _, _)
magic_scan(fn, magic_methods, i, args, kwargs, g) ==
    IF i > Len(magic_methods)
    THEN [Raise("BreakGraphError", "Not support builtin function: " \o fn, g)
            EXCEPT !.tier = "break"]
    ELSE LET magic_method == magic_methods[i]
             sorted_args == IF magic_method.is_reverse THEN Reverse(args) ELSE args
         IN  IF Len(sorted_args) = 0
             THEN [Raise("IndexError", "tuple index out of range", g) EXCEPT !.tier = "magic_scan"]
             ELSE IF hasattr(sorted_args[1].ty, magic_method.name)
                  THEN magic_retry(magic_method, sorted_args[1].ty, args, kwargs, g)
                  ELSE magic_scan(fn, magic_methods, i + 1, args, kwargs, g)

\* BuiltinVariable.call_function
BuiltinVariable_call_function(fn, args, kwargs, g) ==
    IF Dispatcher_dispatch(fn, args, kwargs)
    THEN [Return(handler(fn, args, kwargs), g, 0) EXCEPT !.tier = "dispatcher"]
    ELSE magic_scan(fn, magic_method_builtin_dispatch(fn), 1, args, kwargs, g)

-----------------------------------------------------------------------------
(* MethodVariable, UserDefinedLayerVariable, UserDefinedGeneratorVariable *)

\* A method call that passes the bound instance last instead of first.
MethodVariable_call_instance_last(callee, args, kwargs, g) ==
    [UserDefinedFunctionVariable_call_function(
        callee.value, args \o <<callee.bound>>, kwargs, g) EXCEPT !.via = "method"]

\* MethodVariable.call_function: self.fn(*(self.bound_instance, *args), **kwargs)
MethodVariable_call_function(callee, args, kwargs, g) ==
    [UserDefinedFunctionVariable_call_function(
        callee.value, <<callee.bound>> \o args, kwargs, g) EXCEPT !.via = "method"]

\* UserDefinedLayerVariable.call_function: the class-level __call__ wrapped as
\* a UserDefinedFunctionVariable and called with (self, *args), **kwargs.
UserDefinedLayerVariable_call_function(callee, args, kwargs, g) ==
    [UserDefinedFunctionVariable_call_function(
        "__call__", <<callee.bound>> \o args, kwargs, g) EXCEPT !.via = "layer"]

\* UserDefinedGeneratorVariable.call_function: self.value() is called with no
\* argument whatever args and kwargs hold.
UserDefinedGeneratorVariable_call_function(fn, args, kwargs, g) ==
    IF GeneratorArity(fn) > 0
    THEN Raise("TypeError", fn \o "() missing required positional argument", g)
    ELSE Return(Var("generator", 0), g, 0)

-----------------------------------------------------------------------------
(* The callables a guest program invokes *)

Callee(variant, value, bound) == [variant |-> variant, value |-> value, bound |-> bound]

LayerSelf == Var("Layer", 0)

Callees ==
    {Callee("UserDefinedFunctionVariable", f, NoneVar) :
        f \in {"f", "ASSERT", "psdb_print", "psdb_breakpoint"}}
    \cup {Callee("PaddleApiVariable", f, NoneVar) : f \in {"relu", "map_structure"}}
    \cup {Callee("TensorFunctionVariable", f, NoneVar) : f \in {"abs", "numpy"}}
    \cup {Callee("BuiltinVariable", f, NoneVar) : f \in {"add", "len", "chr"}}
    \cup {Callee("MethodVariable", "f", Var("Rev", 2))}
    \cup {Callee("UserDefinedGeneratorVariable", f, NoneVar) : f \in {"gen0", "gen1"}}
    \cup {Callee("UserDefinedLayerVariable", "MyLayer", LayerSelf)}
    \cup {Callee("PaddleLayerVariable", "Linear", LayerSelf)}

\* The calls the interpreter is given: the addition builtin with every
\* argument list, any other callable with an excerpt of them.
ShortArgLists == {<<>>, <<Var("Plain", 0)>>, <<Var("Rev", 2)>>, <<Var("Plain", 0), Var("Rev", 2)>>}

InterpreterCalls ==
    {<<c, a, k>> : c \in {Callee("BuiltinVariable", "add", NoneVar)},
                   a \in ArgLists, k \in KwargSets}
    \cup {<<c, a, k>> : c \in Callees, a \in ShortArgLists, k \in KwargSets}

\* The calls the body of a guest function makes: every callable with two
\* operands, and the addition builtin with none.
InlineCalls ==
    {<<c, <<Var("Plain", 0), Var("Rev", 2)>>, {}>> : c \in Callees}
    \cup {<<Callee("BuiltinVariable", "add", NoneVar), <<>>, {}>>}

\* CallableVariable.__call__: self.call_function(*args, **kwargs)
call_function(callee, args, kwargs, g) ==
    CASE callee.variant = "UserDefinedFunctionVariable" ->
            UserDefinedFunctionVariable_call_function(callee.value, args, kwargs, g)
      [] callee.variant = "PaddleApiVariable" ->
            PaddleApiVariable_call_function(callee.value, args, kwargs, g)
      [] callee.variant = "TensorFunctionVariable" ->
            TensorFunctionVariable_call_function(callee.value, args, kwargs, g)
      [] callee.variant = "BuiltinVariable" ->
            BuiltinVariable_call_function(callee.value, args, kwargs, g)
      [] callee.variant = "MethodVariable" ->
            MethodVariable_call_function(callee, args, kwargs, g)
      [] callee.variant = "UserDefinedGeneratorVariable" ->
            UserDefinedGeneratorVariable_call_function(callee.value, args, kwargs, g)
      [] callee.variant = "UserDefinedLayerVariable" ->
            UserDefinedLayerVariable_call_function(callee, args, kwargs, g)
      [] callee.variant = "PaddleLayerVariable" ->
            PaddleLayerVariable_call_function(callee, args, kwargs, g)

-----------------------------------------------------------------------------
(* Host values and the constructors registered with VariableFactory *)

\* A host value as the constructors see it: its shape (what isinstance,
\* callable and inspect report), its name, and for a layer the module of its
\* class, whether it is a Sequential container, and whether it has forward
\* pre-hooks and post-hooks.  A bound method also names the object it is bound to (self).
HostValue(shape, name, self, module, sequential, pre_hooks, post_hooks) ==
    [shape |-> shape, name |-> name, self |-> self, module |-> module,
     sequential |-> sequential, forward_pre_hooks |-> pre_hooks,
     forward_post_hooks |-> post_hooks]

Host(shape, name) == HostValue(shape, name, "", "", FALSE, FALSE, FALSE)

BoundTo(shape, name, self) == HostValue(shape, name, self, "", FALSE, FALSE, FALSE)

LayerValue(name, module, sequential, pre_hooks, post_hooks) ==
    HostValue("layer", name, "", module, sequential, pre_hooks, post_hooks)

\* str.startswith
startswith(s, prefix) == Len(s) >= Len(prefix) /\ SubSeq(s, 1, Len(prefix)) = prefix

\* isinstance(value, types.FunctionType): a native API function and a
\* generator function are functions of the guest language as well.
isinstance_FunctionType(value) ==
    value.shape \in {"function", "generator_function", "paddle_api"}

inspect_isgeneratorfunction(value) == value.shape = "generator_function"

inspect_ismethod(value) == value.shape = "method"

isinstance_Layer(value) == value.shape = "layer"

callable(value) ==
    value.shape \in {"function", "generator_function", "paddle_api", "builtin",
                     "method", "builtin_method", "method_descriptor", "layer", "class"}

\* utils.is_paddle_api / utils.is_builtin_fn
is_paddle_api(value) == value.shape = "paddle_api"
is_builtin_fn(value) == value.shape = "builtin"

\* The from_value of each class: the name of the class it constructs, or
\* "None" when it declines.
UserDefinedFunctionVariable_from_value(value) ==
    IF isinstance_FunctionType(value) THEN "UserDefinedFunctionVariable" ELSE "None"

PaddleApiVariable_from_value(value) ==
    IF callable(value) /\ is_paddle_api(value) THEN "PaddleApiVariable" ELSE "None"

MethodVariable_from_value(value) ==
    IF inspect_ismethod(value) THEN "MethodVariable" ELSE "None"

UserDefinedLayerVariable_from_value(value) ==
    IF isinstance_Layer(value) THEN "UserDefinedLayerVariable" ELSE "None"

BuiltinVariable_from_value(value) ==
    IF is_builtin_fn(value) THEN "BuiltinVariable" ELSE "None"

\* A from_value that asks whether the value is a generator in place of a
\* generator function.
Generator_from_value_isgenerator(value) ==
    IF value.shape = "generator" THEN "UserDefinedGeneratorVariable" ELSE "None"

UserDefinedGeneratorVariable_from_value(value) ==
    IF inspect_isgeneratorfunction(value) THEN "UserDefinedGeneratorVariable" ELSE "None"

\* A from_value that looks at the module of the class only.
PaddleLayer_from_value_module_only(value) ==
    IF isinstance_Layer(value) /\ startswith(value.module, "paddle.nn.")
    THEN "PaddleLayerVariable" ELSE "None"

PaddleLayerVariable_from_value(value) ==
    IF isinstance_Layer(value)
    THEN IF value.sequential \/ value.forward_pre_hooks \/ value.forward_post_hooks
         THEN "None"
         ELSE IF startswith(value.module, "paddle.nn.")
              THEN "PaddleLayerVariable"
              ELSE "None"
    ELSE "None"

\* The register_from_value decorators of the file, in the order the classes
\* are defined: each names the class and the successor it is tried before.
Registrations ==
    << [cls |-> "UserDefinedFunctionVariable", successor |-> "default"],
       [cls |-> "PaddleApiVariable", successor |-> "UserDefinedFunctionVariable"],
       [cls |-> "MethodVariable", successor |-> "default"],
       [cls |-> "UserDefinedLayerVariable", successor |-> "PaddleApiVariable"],
       [cls |-> "BuiltinVariable", successor |-> "default"],
       [cls |-> "UserDefinedGeneratorVariable", successor |-> "UserDefinedFunctionVariable"],
       [cls |-> "PaddleLayerVariable", successor |-> "UserDefinedLayerVariable"] >>

RegisteredClasses == {Registrations[i].cls : i \in 1..Len(Registrations)}

from_value_of(cls, value) ==
    CASE cls = "UserDefinedFunctionVariable" -> UserDefinedFunctionVariable_from_value(value)
      [] cls = "PaddleApiVariable" -> PaddleApiVariable_from_value(value)
      [] cls = "MethodVariable" -> MethodVariable_from_value(value)
      [] cls = "UserDefinedLayerVariable" -> UserDefinedLayerVariable_from_value(value)
      [] cls = "BuiltinVariable" -> BuiltinVariable_from_value(value)
      [] cls = "UserDefinedGeneratorVariable" -> UserDefinedGeneratorVariable_from_value(value)
      [] cls = "PaddleLayerVariable" -> PaddleLayerVariable_from_value(value)

\* The registrations that name a class as their successor, in order.
RegisteredBefore(name) == SelectSeq(Registrations, LAMBDA r : r.successor = name)

\* The order in which the registry tries the constructors: the entries that
\* name a class as successor come before it, each after its own predecessors.
RECURSIVE Chain(_), Chains(_)
Chains(rs) == IF rs = <<>> THEN <<>> ELSE Chain(Head(rs).cls) \o Chains(Tail(rs))
Chain(name) == Chains(RegisteredBefore(name)) \o <<name>>

TryOrder == Chains(RegisteredBefore("default"))

\* The constructors that return a Variable for the value.
Matching(value) == {cls \in RegisteredClasses : from_value_of(cls, value) # "None"}

\* The places of TryOrder whose constructor returns a Variable.
MatchingPlaces(value) ==
    {i \in 1..Len(TryOrder) : from_value_of(TryOrder[i], value) # "None"}

\* VariableFactory.from_value, the class it constructs: that of the first
\* constructor in the order tried that returns a Variable; a value none of
\* them takes goes to the constructors registered by the other modules.
VariableFactory_resolve(value) ==
    IF MatchingPlaces(value) = {}
    THEN "VariableBase"
    ELSE LET first == CHOOSE i \in MatchingPlaces(value) :
                          \A j \in MatchingPlaces(value) : i <= j
         IN  TryOrder[first]

-----------------------------------------------------------------------------
(* The host objects of a guest program *)

\* A layer of the guest program, and the built-in layer it holds as `sub`.
UserLayer == LayerValue("layer", "model", FALSE, FALSE, FALSE)
LinearLayer == LayerValue("linear", "paddle.nn.layer.common", FALSE, FALSE, FALSE)

HostLayer(name) == IF name = "layer" THEN UserLayer ELSE LinearLayer

\* The attribute names read, written and deleted on a layer: a method of the
\* class, a method of object (a method descriptor of the class), a sub-layer,
\* and a name the host layer does not have.
AttrNames == {"forward", "__reduce__", "sub", "extra"}

\* hasattr(layer, name) / getattr(layer, name) on the host layer
host_hasattr(value, name) ==
    \/ name \in {"forward", "__reduce__"}
    \/ name = "sub" /\ value.name = "layer"

host_getattr(value, name) ==
    CASE name = "forward" -> BoundTo("method", "forward", value.name)
      [] name = "__reduce__" -> BoundTo("builtin_method", "__reduce__", value.name)
      [] OTHER -> LinearLayer

\* value.__self__ and value.__func__ of a bound method
method_self(value) == HostLayer(value.self)
method_func(value) == Host("function", value.name)

\* hasattr(attr, "__self__")
has_self(attr) == attr.shape \in {"method", "builtin_method"}

\* getattr(attr.__self__.__class__, name, None)
class_getattr(attr, name) ==
    CASE attr.shape = "builtin_method" -> Host("method_descriptor", name)
      [] attr.shape = "method" -> Host("function", name)
      [] OTHER -> Host("None", "None")

inspect_ismethoddescriptor(value) == value.shape = "method_descriptor"

\* VariableBase.get_py_type: the class of the wrapped value.
get_py_type(value) ==
    Host("class", CASE value.shape = "layer" ->
                          (IF value.name = "layer" THEN "MyLayer" ELSE "Linear")
                    [] OTHER -> value.name)

\* id(layer) and layer.training of the host layers.
host_id(value) == "id_" \o value.name
host_training(value) == IF value.name = "layer" THEN "True" ELSE "False"

-----------------------------------------------------------------------------
(* Trackers and the Variables of a trace *)

\* A Variable read from the frame (FrameOrigin).
LocalTracker(name) == [kind |-> "Local", obj |-> 0, attr |-> name]

GetAttrTracker(obj, attr) == [kind |-> "GetAttr", obj |-> obj, attr |-> attr]

DanglingTracker == [kind |-> "Dangling", obj |-> 0, attr |-> ""]

\* DummyTracker([input])
DummyTracker(inputs) == [kind |-> "Dummy", obj |-> inputs[1], attr |-> ""]

\* The entries of a layer's mutation-tracking proxy (MutableDictLikeData):
\* a name not seen yet, a name read from the host layer, a name written and
\* a name deleted; var is the Variable held, 0 for MutableDictLikeData.Empty.
Unseen == [state |-> "unseen", var |-> 0]

NoAttrs == [n \in {} |-> Unseen]

IsLayerVariable(variant) == variant \in {"PaddleLayerVariable", "UserDefinedLayerVariable"}

\* The Variables of the trace are numbered in the order they are constructed;
\* h[i] is Variable i.  The constructor of a Variable; that of a
\* LayerVariable asks side_effects.get_proxy for the proxy of its host layer,
\* which is the one made for the first LayerVariable of that layer.
New(h, variant, value, tracker) ==
    LET id == Len(h) + 1
        owners == {i \in 1..Len(h) : h[i].proxy = i /\ h[i].value = value}
        owner == IF owners = {} THEN id ELSE CHOOSE i \in owners : TRUE
    IN  Append(h, [variant |-> variant, value |-> value, tracker |-> tracker,
                   bound_instance |-> 0, fn |-> 0, method_name |-> "",
                   proxy |-> IF IsLayerVariable(variant) THEN owner ELSE 0,
                   attrs |-> IF IsLayerVariable(variant) /\ owner = id
                             THEN [n \in AttrNames |-> Unseen] ELSE NoAttrs])

\* MethodVariable(bound_instance, fn, graph, tracker, method_name=...)
MethodVariable(h, bound_instance, fn, tracker, method_name) ==
    [New(h, "MethodVariable", Host("method", method_name), tracker)
        EXCEPT ![Len(h) + 1].bound_instance = bound_instance,
               ![Len(h) + 1].fn = fn,
               ![Len(h) + 1].method_name = method_name]

RECURSIVE VariableFactory_from_value(_, _, _)
RECURSIVE wrap_method(_, _, _, _, _, _)

\* var.tracker = tracker, for a Variable that wrap_method made itself.
Retrack(h, made, var, tracker) ==
    IF made THEN [h EXCEPT ![var].tracker = tracker] ELSE h

\* instance_var of wrap_method: the Variable given, or one made from
\* value.__self__ with a DanglingTracker.
wrap_method_instance_var(h, value, instance) ==
    IF instance = 0
    THEN VariableFactory_from_value(h, method_self(value), DanglingTracker)
    ELSE [heap |-> h, var |-> instance]

\* fn_var of wrap_method: the Variable given, or one made from
\* value.__func__ with a DanglingTracker.
wrap_method_fn_var(h, value, fn) ==
    IF fn = 0
    THEN VariableFactory_from_value(h, method_func(value), DanglingTracker)
    ELSE [heap |-> h, var |-> fn]

\* The MethodVariable of wrap_method over instance_var and fn_var, each of
\* which, when wrap_method made it, is tracked from the MethodVariable.
wrap_method_method_var(fn_var, instance_var, tracker, instance, fn, method_name) ==
    [heap |-> Retrack(Retrack(MethodVariable(fn_var.heap, instance_var, fn_var.var,
                                             tracker, method_name),
                              instance = 0, instance_var,
                              GetAttrTracker(Len(fn_var.heap) + 1, "__self__")),
                      fn = 0, fn_var.var,
                      GetAttrTracker(Len(fn_var.heap) + 1, "__func__")),
     var |-> Len(fn_var.heap) + 1]

\* wrap_method once instance_var is there.
wrap_method_with_instance(instance_var, value, tracker, instance, fn, method_name) ==
    wrap_method_method_var(wrap_method_fn_var(instance_var.heap, value, fn),
                           instance_var.var, tracker, instance, fn, method_name)

\* The Variable of class cls the factory constructs, or the MethodVariable
\* that MethodVariable.from_value makes:
\* wrap_method(value=value, tracker=tracker, graph=graph).
construct(cls, h, value, tracker) ==
    IF cls = "MethodVariable"
    THEN wrap_method(h, value, tracker, 0, 0, "")
    ELSE [heap |-> New(h, cls, value, tracker), var |-> Len(h) + 1]

\* VariableFactory.from_value(value, graph, tracker): the Variable made by
\* the constructor that takes the value.
VariableFactory_from_value(h, value, tracker) ==
    construct(VariableFactory_resolve(value), h, value, tracker)

\* A wrap_method that tracks the MethodVariable as an attribute of the
\* instance Variable it has just made.
tracked_from_instance(instance_var, value, tracker, instance, fn, method_name) ==
    wrap_method_method_var(wrap_method_fn_var(instance_var.heap, value, fn),
                           instance_var.var, GetAttrTracker(instance_var.var, value.name),
                           instance, fn, method_name)

wrap_method_tracked_from_instance(h, value, tracker, instance, fn, method_name) ==
    tracked_from_instance(wrap_method_instance_var(h, value, instance),
                          value, tracker, instance, fn, method_name)

\* A wrap_method that leaves the Variables it made with the tracker they
\* were constructed with.
no_rewrite(fn_var, instance_var, tracker, method_name) ==
    [heap |-> MethodVariable(fn_var.heap, instance_var, fn_var.var, tracker, method_name),
     var |-> Len(fn_var.heap) + 1]

no_rewrite_with_instance(instance_var, value, tracker, fn, method_name) ==
    no_rewrite(wrap_method_fn_var(instance_var.heap, value, fn), instance_var.var,
               tracker, method_name)

wrap_method_no_rewrite(h, value, tracker, instance, fn, method_name) ==
    no_rewrite_with_instance(wrap_method_instance_var(h, value, instance),
                             value, tracker, fn, method_name)

\* MethodVariable.wrap_method; instance = 0 and fn = 0 stand for None.
wrap_method(h, value, tracker, instance, fn, method_name) ==
    wrap_method_with_instance(wrap_method_instance_var(h, value, instance),
                              value, tracker, instance, fn, method_name)

\* self.tracker = GetAttrTracker(class_var, name), and the MethodVariable
\* that bind returns.
bind_retracked(class_var, self, name, method_var) ==
    [heap |-> [class_var.heap EXCEPT ![self].tracker = GetAttrTracker(class_var.var, name)],
     var |-> method_var]

\* FunctionVariable.bind(instance, name), self being a function Variable.
bind(h, self, instance, name) ==
    bind_retracked(
        VariableFactory_from_value(
            MethodVariable(h, instance, self, GetAttrTracker(instance, name), ""),
            get_py_type(h[instance].value), GetAttrTracker(instance, "__class__")),
        self, name, Len(h) + 1)

\* fn_var of proxy_getter for a method descriptor: the attribute of the
\* class, tracked from class_var.
proxy_getter_fn_var(class_var, attr, name) ==
    VariableFactory_from_value(class_var.heap, class_getattr(attr, name),
                               GetAttrTracker(class_var.var, name))

\* MethodVariable.wrap_method(value=attr, instance=self, fn=fn_var, ...)
proxy_getter_wrap(fn_var, self, attr, name) ==
    wrap_method(fn_var.heap, attr, GetAttrTracker(self, name), self, fn_var.var, name)

\* LayerVariable.proxy_getter(proxy, name): var = 0 is MutableDictLikeData.Empty().
proxy_getter(h, self, name) ==
    LET original_data == h[self].value
    IN  IF ~host_hasattr(original_data, name)
        THEN [heap |-> h, var |-> 0]
        ELSE LET attr == host_getattr(original_data, name)
                 descriptor == inspect_ismethoddescriptor(class_getattr(attr, name))
             IN  IF inspect_ismethod(attr) \/ (has_self(attr) /\ descriptor)
                 THEN IF descriptor
                      THEN proxy_getter_wrap(
                               proxy_getter_fn_var(
                                   VariableFactory_from_value(
                                       h, get_py_type(h[self].value),
                                       GetAttrTracker(self, "__class__")),
                                   attr, name),
                               self, attr, name)
                      ELSE wrap_method(h, attr, GetAttrTracker(self, name), self, 0, name)
                 ELSE VariableFactory_from_value(h, attr, GetAttrTracker(self, name))

\* The proxy that Variable owner holds, with its entry for name replaced.
SetEntry(h, owner, name, entry) ==
    LET attrs == [h[owner].attrs EXCEPT ![name] = entry]
        var == [h[owner] EXCEPT !.attrs = attrs]
    IN  [h EXCEPT ![owner] = var]

\* The proxy keeps what its getter has read for a name it had not seen.
proxy_populated(read, owner, name) ==
    [heap |-> SetEntry(read.heap, owner, name, [state |-> "read", var |-> read.var]),
     var |-> read.var]

\* MutableDictLikeData.get(key): what was written or deleted last, else what
\* was read before, else what the getter reads now, which is kept.
proxy_get(h, self, name) ==
    IF h[h[self].proxy].attrs[name].state # "unseen"
    THEN [heap |-> h, var |-> h[h[self].proxy].attrs[name].var]
    ELSE proxy_populated(proxy_getter(h, h[self].proxy, name), h[self].proxy, name)

\* MutableDictLikeData.set(key, value) and MutableDictLikeData.delete(key)
proxy_set(h, self, name, var) ==
    SetEntry(h, h[self].proxy, name, [state |-> "written", var |-> var])

proxy_delete(h, self, name) ==
    SetEntry(h, h[self].proxy, name, [state |-> "deleted", var |-> 0])

\* The Variable read from the proxy is returned.
getattr_return(got) ==
    [heap |-> got.heap, kind |-> "return", exc |-> "none", var |-> got.var]

\* LayerVariable.getattr(name) with no default.
LayerVariable_getattr(h, self, name) ==
    IF ~host_hasattr(h[self].value, name)
    THEN [heap |-> h, kind |-> "raise", exc |-> "InnerError", var |-> 0]
    ELSE getattr_return(proxy_get(h, self, name))

\* Tracker.trace_value_from_frame: the expression that reads the value from
\* the frame and the free variables of the expression.
RECURSIVE trace_value_from_frame(_, _)
trace_value_from_frame(h, tracker) ==
    CASE tracker.kind = "Local" -> [expr |-> tracker.attr, free_vars |-> {tracker.attr}]
      [] tracker.kind = "GetAttr" ->
            LET obj == trace_value_from_frame(h, h[tracker.obj].tracker)
            IN  [expr |-> obj.expr \o "." \o tracker.attr, free_vars |-> obj.free_vars]
      [] OTHER -> [expr |-> "<no frame expression>", free_vars |-> {}]

\* A guard that adds a clause for every attribute the proxy has seen.
guard_with_attribute_clauses(h, self) ==
    LET frame_value_tracer == trace_value_from_frame(h, h[self].tracker)
        seen == {n \in AttrNames : h[h[self].proxy].attrs[n].state # "unseen"}
    IN  << [expr |-> "id(" \o frame_value_tracer.expr \o ") == " \o host_id(h[self].value),
            free_vars |-> frame_value_tracer.free_vars],
           [expr |-> frame_value_tracer.expr \o ".training == "
                        \o host_training(h[self].value),
            free_vars |-> frame_value_tracer.free_vars] >>
        \o [i \in 1..Cardinality(seen) |->
               [expr |-> "hasattr(" \o frame_value_tracer.expr \o ")",
                free_vars |-> frame_value_tracer.free_vars]]

\* LayerVariable.make_stringify_guard
make_stringify_guard(h, self) ==
    LET frame_value_tracer == trace_value_from_frame(h, h[self].tracker)
    IN  << [expr |-> "id(" \o frame_value_tracer.expr \o ") == " \o host_id(h[self].value),
            free_vars |-> frame_value_tracer.free_vars],
           [expr |-> frame_value_tracer.expr \o ".training == "
                        \o host_training(h[self].value),
            free_vars |-> frame_value_tracer.free_vars] >>

\* UserDefinedLayerVariable.call_function: the function Variable it makes
\* for the class-level __call__.
layer_call_fn_var(h, self) ==
    [heap |-> New(h, "UserDefinedFunctionVariable", Host("function", "__call__"),
                  GetAttrTracker(self, "__call__")),
     var |-> Len(h) + 1]

\* UserDefinedGeneratorVariable.call_function: the Variable of the generator
\* object self.value() returns.
generator_call(h, self) ==
    VariableFactory_from_value(h, Host("generator", h[self].value.name), DummyTracker(<<self>>))

\* The Variable of this trace as an operand of the call dispatch.
AsOperand(h, id) == Var(h[id].value.name, 0)

\* The class Variable and the function Variable made for a special method.
magic_resolved(class_var, fn_var) ==
    [heap |-> fn_var.heap, class_var |-> class_var, fn_var |-> fn_var.var]

\* fn_var: the function found on the class, tracked as its attribute.
magic_fn_var(class_var, magic_method) ==
    magic_resolved(class_var.var,
                   VariableFactory_from_value(
                       class_var.heap, Host("function", magic_method.name),
                       GetAttrTracker(class_var.var, magic_method.name)))

\* BuiltinVariable.call_function, the Variables made for the special method
\* resolved: the class of the operand checked, tracked as the __class__ of
\* args[0], and the function found on the class, tracked as its attribute.
resolve_magic_method(h, magic_method, args) ==
    LET sorted_args == IF magic_method.is_reverse THEN Reverse(args) ELSE args
        arg_type == get_py_type(h[sorted_args[1]].value)
    IN  magic_fn_var(VariableFactory_from_value(h, arg_type,
                                                GetAttrTracker(args[1], "__class__")),
                     magic_method)

-----------------------------------------------------------------------------
(* The state *)

VARIABLES
    graph,      \* the trace: statements emitted and print variables recorded
    stack,      \* the inline executors running, outermost first
    exc,        \* the exception in flight inside the inline calls
    outcome,    \* what the interpreter's call instruction ended with
    pre,        \* the trace when the interpreter's call instruction began
    restores,   \* depths at which restore_memo ran during the current call
    ev,         \* the last call_function step taken, for the properties
    heap,       \* the Variables constructed, with their trackers and proxies
    pev         \* the last operation on the Variables, for the properties

\* The state of the call dispatch and the state of the Variables.
cvars == <<graph, stack, exc, outcome, pre, restores, ev>>
pvars == <<heap, pev>>

vars == <<cvars, pvars>>

NoExc == [kind |-> "none", reason |-> "", origin |-> 0]

NoOutcome ==
    [kind |-> "none", exc |-> "none", reason |-> "", result |-> NoneVar, origin |-> 0]

NoFrame ==
    [code |-> "none", locals |-> <<>>, checkpoint |-> save_memo(EmptyGraph),
     entry |-> EmptyGraph, log |-> <<>>, phase |-> "none"]

NoCallee == Callee("none", "none", NoneVar)

NoEvent ==
    [op |-> "none", callee |-> NoCallee, args |-> <<>>, kwargs |-> {},
     r |-> Base(EmptyGraph), output |-> NoneVar, entry |-> EmptyGraph,
     depth |-> 0, frame |-> NoFrame, cause |-> NoExc]

\* OpcodeInlineExecutor(fn_variable, *args, **kwargs), before its constructor
\* has run.  The body of a special method reads its two parameters, so its
\* locals are kept; the body of any other guest function is left open (any
\* sequence of calls), so its locals are not.  entry and log record the trace
\* at the call and the mutations made since.
OpcodeInlineExecutor(r, g) ==
    [code |-> r.code,
     locals |-> IF r.code \in SpecialMethods THEN r.args ELSE <<>>,
     checkpoint |-> r.checkpoint, entry |-> g, log |-> <<>>,
     phase |-> "ctor"]

\* The constructor binds the arguments to the parameters of the code.
BindsArguments(frame) == frame.code \in SpecialMethods => Len(frame.locals) = 2

\* What inline_call can return: the value of a special method's body, or for
\* any other guest function one of the Variables it may hold.
inline_call_outputs(frame, g) ==
    IF frame.code \in SpecialMethods
    THEN {SpecialMethodBody(frame.code, frame.locals[1], frame.locals[2])}
    ELSE {NoneVar, Var("Tensor", Len(g.stmt_ir))}

\* The mutations that take the trace g to g2.
Delta(g, g2) ==
    IF g2.print_variables > g.print_variables
    THEN <<"add_print_variables">>
    ELSE SubSeq(g2.stmt_ir, Len(g.stmt_ir) + 1, Len(g2.stmt_ir))

Top == stack[Len(stack)]
Rest == SubSeq(stack, 1, Len(stack) - 1)

\* The stack once its top frame is gone: the mutations made under the callee
\* were made during the caller's call as well.
Popped == 
    IF Len(stack) = 1 THEN <<>>
    ELSE [Rest EXCEPT ![Len(stack) - 1].log = @ \o Top.log]

NoOp ==
    [op |-> "none", self |-> 0, name |-> "", args |-> <<>>, out |-> 0, cls |-> 0,
     reverse |-> FALSE, kind |-> "none", value |-> Host("None", "None"),
     guard |-> <<>>, before |-> <<>>]

Init ==
    /\ heap = <<>>
    /\ pev = NoOp
    /\ graph = EmptyGraph
    /\ stack = <<>>
    /\ exc = NoExc
    /\ outcome = NoOutcome
    /\ pre = EmptyGraph
    /\ restores = <<>>
    /\ ev = NoEvent

-----------------------------------------------------------------------------
(* The actions *)

\* A call instruction: callee(*args, **kwargs), run by the interpreter
\* (depth 0) or by the innermost inline executor.
CallStep(callee, args, kwargs) ==
    LET r == call_function(callee, args, kwargs, graph)
        depth == Len(stack)
    IN  /\ GraphSize(r.graph) <= MaxStmts
        /\ r.kind = "inline" => depth < MaxDepth
        /\ graph' = r.graph
        /\ ev' = [NoEvent EXCEPT !.op = "call_function", !.callee = callee,
                                 !.args = args, !.kwargs = kwargs, !.r = r,
                                 !.entry = graph, !.depth = depth]
        /\ CASE r.kind = "return" ->
                  /\ stack' = IF depth = 0 THEN stack
                              ELSE [stack EXCEPT ![depth].log = @ \o Delta(graph, r.graph)]
                  /\ exc' = exc
                  /\ outcome' = IF depth = 0
                                THEN [NoOutcome EXCEPT !.kind = "return", !.result = r.result]
                                ELSE outcome
             [] r.kind = "raise" ->
                  /\ stack' = stack
                  /\ exc' = IF depth = 0 THEN NoExc
                            ELSE [kind |-> r.exc, reason |-> r.reason, origin |-> depth]
                  /\ outcome' = IF depth = 0
                                THEN [NoOutcome EXCEPT !.kind = "raise", !.exc = r.exc,
                                                       !.reason = r.reason]
                                ELSE outcome
             [] r.kind = "inline" ->
                  /\ stack' = Append(stack, OpcodeInlineExecutor(r, graph))
                  /\ UNCHANGED <<exc, outcome>>

\* The interpreter reaches a call instruction.
InterpreterCall(callee, args, kwargs) ==
    /\ UNCHANGED pvars
    /\ stack = <<>>
    /\ outcome.kind = "none"
    /\ pre' = graph
    /\ restores' = <<>>
    /\ CallStep(callee, args, kwargs)

\* The innermost inline executor reaches a call instruction of the body.
InlineCall(callee, args, kwargs) ==
    /\ UNCHANGED pvars
    /\ stack # <<>>
    /\ exc.kind = "none"
    /\ Top.phase = "run"
    /\ Top.code \notin SpecialMethods
    /\ UNCHANGED <<pre, restores>>
    /\ CallStep(callee, args, kwargs)

\* The constructor of the inline executor completes, or fails to bind the
\* arguments (TypeError).
InlineConstruct ==
    /\ UNCHANGED pvars
    /\ stack # <<>>
    /\ exc.kind = "none"
    /\ Top.phase = "ctor"
    /\ IF BindsArguments(Top)
       THEN /\ stack' = [stack EXCEPT ![Len(stack)].phase = "run"]
            /\ exc' = exc
       ELSE /\ stack' = stack
            /\ exc' = [kind |-> "TypeError", reason |-> "missing a required argument",
                       origin |-> Len(stack)]
    /\ ev' = [NoEvent EXCEPT !.op = "construct", !.depth = Len(stack), !.frame = Top,
                             !.entry = graph]
    /\ UNCHANGED <<graph, outcome, pre, restores>>

\* The inline executor (its constructor included) fails by itself: with a
\* recoverable tracing failure, or with an error of the tracer that is none.
InlineRaise(kind) ==
    /\ UNCHANGED pvars
    /\ stack # <<>>
    /\ exc.kind = "none"
    /\ exc' = [kind |-> kind, reason |-> "inline failure", origin |-> Len(stack)]
    /\ ev' = [NoEvent EXCEPT !.op = "inline_raise", !.depth = Len(stack), !.frame = Top,
                             !.entry = graph]
    /\ UNCHANGED <<graph, stack, outcome, pre, restores>>

\* inline_call returns and call_function returns its output.
InlineReturn(output) ==
    /\ UNCHANGED pvars
    /\ stack # <<>>
    /\ exc.kind = "none"
    /\ Top.phase = "run"
    /\ output \in inline_call_outputs(Top, graph)
    /\ LET h == return_output(Top, graph, output)
       IN  /\ graph' = h.graph
           /\ restores' = IF h.restored THEN Append(restores, Len(stack)) ELSE restores
           /\ outcome' = IF Len(stack) = 1
                         THEN [NoOutcome EXCEPT !.kind = "return", !.result = h.result]
                         ELSE outcome
           /\ ev' = [NoEvent EXCEPT !.op = "inline_return", !.depth = Len(stack),
                                    !.frame = Top, !.output = output,
                                    !.r = Return(h.result, h.graph, 0),
                                    !.entry = Top.entry]
    /\ stack' = Popped
    /\ UNCHANGED <<exc, pre>>

\* except FallbackErrorBase as e: in the innermost call_function that has an
\* inline executor running.
ExceptFallback ==
    /\ UNCHANGED pvars
    /\ stack # <<>>
    /\ except_clause_matches(exc)
    /\ LET h == except_FallbackErrorBase(Top, graph, exc)
           last == Len(stack) = 1
       IN  /\ graph' = h.graph
           /\ restores' = IF h.graph = restore_memo(graph, Top.checkpoint)
                          THEN Append(restores, Len(stack)) ELSE restores
           /\ exc' = IF last \/ h.raised.kind = "none" THEN NoExc
                     ELSE [kind |-> h.raised.kind, reason |-> h.raised.reason,
                           origin |-> exc.origin]
           /\ outcome' = IF ~last THEN outcome
                         ELSE IF h.raised.kind = "none"
                         THEN [NoOutcome EXCEPT !.kind = "return"]
                         ELSE [NoOutcome EXCEPT !.kind = "raise", !.exc = h.raised.kind,
                                                !.reason = h.raised.reason,
                                                !.origin = exc.origin]
           /\ ev' = [NoEvent EXCEPT !.op = "except", !.depth = Len(stack), !.frame = Top,
                                    !.cause = exc,
                                    !.r = IF h.raised.kind = "none"
                                          THEN Return(NoneVar, h.graph, 0)
                                          ELSE Raise(h.raised.kind, h.raised.reason, h.graph),
                                    !.entry = Top.entry]
    /\ stack' = Popped
    /\ pre' = pre

\* An exception the except clause does not name leaves call_function as it is.
Propagate ==
    /\ UNCHANGED pvars
    /\ stack # <<>>
    /\ exc.kind # "none"
    /\ ~except_clause_matches(exc)
    /\ exc' = IF Len(stack) = 1 THEN NoExc ELSE exc
    /\ outcome' = IF Len(stack) = 1
                  THEN [NoOutcome EXCEPT !.kind = "raise", !.exc = exc.kind,
                                         !.reason = exc.reason, !.origin = exc.origin]
                  ELSE outcome
    /\ ev' = [NoEvent EXCEPT !.op = "propagate", !.depth = Len(stack), !.frame = Top,
                             !.cause = exc, !.r = Raise(exc.kind, exc.reason, graph),
                             !.entry = Top.entry]
    /\ stack' = Popped
    /\ UNCHANGED <<graph, pre, restores>>

\* The interpreter goes on to the next call instruction.
Resume ==
    /\ UNCHANGED pvars
    /\ outcome.kind # "none"
    /\ outcome' = NoOutcome
    /\ ev' = NoEvent
    /\ pre' = graph
    /\ restores' = <<>>
    /\ UNCHANGED <<graph, stack, exc>>

Next ==
    \/ \E call \in InterpreterCalls : InterpreterCall(call[1], call[2], call[3])
    \/ \E call \in InlineCalls : InlineCall(call[1], call[2], call[3])
    \/ InlineConstruct
    \/ \E kind \in {"NotImplementException", "InternalError"} : InlineRaise(kind)
    \/ \E output \in {NoneVar} \cup {Var("Tensor", n) : n \in 0..MaxStmts}
                     \cup {Var("Plain", n) : n \in 0..(Cardinality(Operands) * Cardinality(Operands))} :
          InlineReturn(output)
    \/ ExceptFallback
    \/ Propagate
    \/ Resume

Spec == Init /\ [][Next]_vars

-----------------------------------------------------------------------------
(* The operations on the Variables of a trace *)

\* The values the frame of the guest function holds, each under its name.
FrameValues ==
    { <<UserLayer, "layer">>,
      <<BoundTo("method", "forward", "layer"), "m">>,
      <<Host("generator_function", "gen"), "gen">>,
      <<Host("object", "Plain"), "a">>,
      <<Host("object", "Rev"), "b">> }

Vars == 1..Len(heap)

LayerVars == {i \in Vars : IsLayerVariable(heap[i].variant)}

\* The class of the instance defines the function the Variable fn wraps.
ClassDefines(instance, fn) ==
    /\ heap[fn].variant = "UserDefinedFunctionVariable"
    /\ IF heap[instance].value.shape = "layer"
       THEN heap[fn].value.name \in {"forward", "__call__"}
       ELSE /\ heap[instance].value.shape = "object"
            /\ hasattr(heap[instance].value.name, heap[fn].value.name)

ProvInit ==
    /\ heap = <<>>
    /\ pev = NoOp
    /\ graph = EmptyGraph
    /\ stack = <<>>
    /\ exc = NoExc
    /\ outcome = NoOutcome
    /\ pre = EmptyGraph
    /\ restores = <<>>
    /\ ev = NoEvent

\* The operation op ends with the Variables h2.
Done(op, h2) ==
    /\ Len(h2) <= MaxVars
    /\ heap' = h2
    /\ pev' = [op EXCEPT !.before = heap]
    /\ UNCHANGED cvars

\* The operation op returns the Variable made.
Returns(op, made) ==
    Done([op EXCEPT !.out = made.var, !.kind = "return"], made.heap)

\* The operation op returns what got holds, or raises.
Ends(op, got) ==
    Done([op EXCEPT !.out = got.var, !.kind = got.kind], got.heap)

\* The interpreter wraps a value of the frame, once:
\* VariableFactory.from_value(value, graph, LocalTracker(name)).
FromFrame(value, name) ==
    /\ \A i \in Vars : heap[i].tracker # LocalTracker(name)
    /\ Returns([NoOp EXCEPT !.op = "from_value", !.name = name, !.value = value],
               VariableFactory_from_value(heap, value, LocalTracker(name)))

\* layer.name is read: LayerVariable.getattr(name).
GetAttr(self, name) ==
    /\ self \in LayerVars
    /\ Ends([NoOp EXCEPT !.op = "getattr", !.self = self, !.name = name],
            LayerVariable_getattr(heap, self, name))

\* layer.name = var, var being an object of the frame, is recorded in the
\* proxy of the layer.
SetAttr(self, name, var) ==
    /\ self \in LayerVars
    /\ var \in Vars
    /\ heap[var].tracker.kind = "Local"
    /\ heap[var].value.shape = "object"
    /\ Done([NoOp EXCEPT !.op = "setattr", !.self = self, !.name = name, !.out = var,
                         !.kind = "return"], proxy_set(heap, self, name, var))

\* del layer.name is recorded in the proxy of the layer.
DelAttr(self, name) ==
    /\ self \in LayerVars
    /\ heap[heap[self].proxy].attrs[name].state \in {"read", "written"}
    /\ Done([NoOp EXCEPT !.op = "delattr", !.self = self, !.name = name,
                         !.kind = "return"], proxy_delete(heap, self, name))

\* instance.name is read and the class of the instance holds the function:
\* fn.bind(instance, name).
Bind(fn, instance) ==
    /\ fn \in Vars
    /\ instance \in Vars
    /\ ClassDefines(instance, fn)
    /\ Returns([NoOp EXCEPT !.op = "bind", !.self = fn, !.args = <<instance>>,
                            !.name = heap[fn].value.name],
               bind(heap, fn, instance, heap[fn].value.name))

\* The special method resolved is recorded with its class Variable.
MagicDone(op, made) ==
    Done([op EXCEPT !.cls = made.class_var, !.out = made.fn_var, !.kind = "return"],
         made.heap)

\* The magic-method tier of the addition builtin takes the call.
MagicTier(op, r, args) ==
    /\ r.tier = "magic"
    /\ MagicDone([op EXCEPT !.name = r.magic.name, !.reverse = r.magic.is_reverse],
                 resolve_magic_method(heap, r.magic, args))

\* The addition builtin is called with Variables of the trace and its
\* magic-method tier resolves a special method.
MagicResolve(args) ==
    /\ Len(args) \in 1..2
    /\ \A i \in 1..Len(args) : args[i] \in Vars /\ heap[args[i]].value.shape = "object"
    /\ MagicTier([NoOp EXCEPT !.op = "magic", !.args = args],
                 BuiltinVariable_call_function(
                     "add", [i \in 1..Len(args) |-> AsOperand(heap, args[i])], {},
                     EmptyGraph),
                 args)

\* A generator function is called.
GeneratorCall(self) ==
    /\ self \in Vars
    /\ heap[self].variant = "UserDefinedGeneratorVariable"
    /\ Returns([NoOp EXCEPT !.op = "generator", !.self = self], generator_call(heap, self))

\* A user-defined layer is called.
LayerCall(self) ==
    /\ self \in Vars
    /\ heap[self].variant = "UserDefinedLayerVariable"
    /\ Returns([NoOp EXCEPT !.op = "layer_call", !.self = self],
               layer_call_fn_var(heap, self))

\* The guard of a layer is asked for.
MakeGuard(self) ==
    /\ self \in LayerVars
    /\ Done([NoOp EXCEPT !.op = "guard", !.self = self, !.kind = "return",
                         !.guard = make_stringify_guard(heap, self)], heap)

ProvNext ==
    \/ \E f \in FrameValues : FromFrame(f[1], f[2])
    \/ \E self \in 1..MaxVars, name \in AttrNames : GetAttr(self, name)
    \/ \E fn \in 1..MaxVars, instance \in 1..MaxVars : Bind(fn, instance)
    \/ \E a \in 1..MaxVars, b \in 1..MaxVars : MagicResolve(<<a>>) \/ MagicResolve(<<a, b>>)
    \/ \E self \in 1..MaxVars : GeneratorCall(self)
    \/ \E self \in 1..MaxVars : LayerCall(self)
    \/ \E self \in 1..MaxVars : MakeGuard(self)

ProvSpec == ProvInit /\ [][ProvNext]_vars

\* The host values the constructors of this file handle: a plain function, a
\* generator function, a native API function, a builtin, a bound method, and
\* layers of every module, container kind and hook state.
LayerModules == {"paddle.nn.layer.common", "paddle.nn", "paddle.nnx.layer", "model"}

LayerValues ==
    {LayerValue("l", module, sequential, pre_hooks, post_hooks) :
        module \in LayerModules, sequential \in BOOLEAN,
        pre_hooks \in BOOLEAN, post_hooks \in BOOLEAN}

HandledValues ==
    {Host("function", "f"), Host("generator_function", "gen"), Host("paddle_api", "relu"),
     Host("builtin", "len"), BoundTo("method", "forward", "layer")}
    \cup LayerValues

\* The interpreter resolves a host value of the frame to a Variable.
Resolve(value) ==
    /\ Cardinality({i \in Vars : heap[i].tracker.kind = "Local"}) < MaxResolved
    /\ Returns([NoOp EXCEPT !.op = "resolve", !.name = "v", !.value = value],
               VariableFactory_from_value(heap, value, LocalTracker("v")))

FactoryNext == \E value \in HandledValues : Resolve(value)

FactorySpec == ProvInit /\ [][FactoryNext]_vars

\* The frame of a guest program that holds a layer and an object.
LayerFrameValues == {f \in FrameValues : f[2] \in {"layer", "a"}}

\* The attribute reads, writes and deletes on the layers of a trace.
ProxyNext ==
    \/ \E f \in LayerFrameValues : FromFrame(f[1], f[2])
    \/ \E self \in 1..MaxVars, name \in AttrNames : GetAttr(self, name)
    \/ \E self \in 1..MaxVars, name \in {"sub", "extra"}, var \in 1..MaxVars :
          SetAttr(self, name, var)
    \/ \E self \in 1..MaxVars, name \in {"sub", "extra"} : DelAttr(self, name)

ProxySpec == ProvInit /\ [][ProxyNext]_vars

-----------------------------------------------------------------------------
(* Properties *)

IsCall(variant) == ev.op = "call_function" /\ ev.callee.variant = variant

\* <<n, n-1, ..., m+1>>
Descending(n, m) == [i \in 1..(n - m) |-> n + 1 - i]

\* C1 (break-graph safety): when the inline execution of a non-debug callee
\* raised a recoverable failure after one or more trace mutations, the call
\* ends by raising BreakGraphError, and the trace is then the trace of the
\* moment the call began, which is what save_memo captured.
C1_BreakGraphSafety ==
    (ev.op = "except" /\ Len(ev.frame.log) >= 1) =>
        /\ ev.r.kind = "raise"
        /\ ev.r.exc = "BreakGraphError"
        /\ graph = ev.frame.entry
        /\ save_memo(graph) = ev.frame.checkpoint

\* A call that began on a non-empty trace, mutated it and failed.
C1_Witness ==
    /\ ev.op = "except"
    /\ Len(ev.frame.log) >= 1
    /\ ev.frame.entry # EmptyGraph
    /\ ev.cause.kind = "NotImplementException"

\* C2 (nested propagation): while a recoverable failure raised at depth n
\* travels up, the levels n, n-1, ... it has left have each restored their
\* own checkpoint, innermost first; no level turns it into a normal return;
\* and when it reaches the interpreter every level down to 1 has restored
\* and the trace is the trace before the outermost call.
C2_NestedPropagation ==
    /\ exc.kind \in FallbackErrors => restores = Descending(exc.origin, Len(stack))
    /\ (outcome.kind = "raise" /\ outcome.exc = "BreakGraphError") =>
            /\ restores = Descending(outcome.origin, 0)
            /\ graph = pre
    /\ (exc.kind = "none" /\ outcome.kind # "raise") => restores = <<>>
    /\ ev.op = "except" => ev.r.kind = "raise" /\ ev.r.exc = "BreakGraphError"

\* A failure raised two levels deep, after mutations, has reached the
\* interpreter, which had a non-empty trace before the call.
C2_Witness ==
    /\ outcome.kind = "raise"
    /\ outcome.exc = "BreakGraphError"
    /\ outcome.origin = 2
    /\ restores = <<2, 1>>
    /\ Len(ev.frame.log) >= 1
    /\ pre # EmptyGraph

\* C3 (the success path keeps the work): when inline_call completes,
\* call_function returns its output, the checkpoint of the call is never
\* restored, and the trace is the trace at the call followed by every
\* mutation made during it.
C3_SuccessKeepsWork ==
    ev.op = "inline_return" =>
        /\ ev.r.kind = "return"
        /\ ev.r.result = ev.output
        /\ (ev.depth = 1 => outcome.kind = "return" /\ outcome.result = ev.output)
        /\ \A i \in 1..Len(restores) : restores[i] # ev.depth
        /\ graph = MutateAll(ev.frame.entry, ev.frame.log)

\* An inline call that returned a Variable after mutating the trace.
C3_Witness ==
    /\ ev.op = "inline_return"
    /\ Len(ev.frame.log) >= 1
    /\ ev.output # NoneVar

Unsupported(callee) ==
    \/ callee.variant = "PaddleApiVariable" /\ is_break_graph_api(callee.value)
    \/ callee.variant = "TensorFunctionVariable" /\ is_break_graph_tensor_methods(callee.value)

EmissionOf(callee) ==
    IF callee.variant = "PaddleApiVariable" THEN "call_paddle_api" ELSE "call_tensor_method"

\* C4 (unsupported native call): a PaddleApiVariable or TensorFunctionVariable
\* classified unsupported raises BreakGraphError with no graph-builder
\* emission and leaves the trace as it was; one not so classified makes
\* exactly one emission, of its own kind, and returns the emitted Variable.
C4_NativeCall ==
    (IsCall("PaddleApiVariable") \/ IsCall("TensorFunctionVariable")) =>
        IF Unsupported(ev.callee)
        THEN /\ ev.r.kind = "raise"
             /\ ev.r.exc = "BreakGraphError"
             /\ ev.r.emits = 0
             /\ graph = ev.entry
        ELSE /\ ev.r.kind = "return"
             /\ ev.r.emits = 1
             /\ graph = Mutate(ev.entry, EmissionOf(ev.callee))
             /\ ev.r.result = EmittedVar(graph)

\* An unsupported API called on a non-empty trace.
C4_Witness ==
    /\ IsCall("PaddleApiVariable")
    /\ Unsupported(ev.callee)
    /\ ev.entry # EmptyGraph
    /\ ev.r.kind = "raise"

\* C5 (reason string): every BreakGraphError, in flight or delivered to the
\* interpreter, carries a non-empty reason.
C5_ReasonNonEmpty ==
    /\ (outcome.kind = "raise" /\ outcome.exc = "BreakGraphError") => outcome.reason # ""
    /\ exc.kind = "BreakGraphError" => exc.reason # ""
    /\ (ev.r.kind = "raise" /\ ev.r.exc = "BreakGraphError") => ev.r.reason # ""

\* The operand whose type is checked for candidate m: the first for a forward
\* name, the last for a reflected one.
CheckedOperand(m, args) == IF m.is_reverse THEN args[Len(args)] ELSE args[1]

\* Candidate i of the builtin is defined on the type of the operand checked.
Defined(mm, i, args) ==
    Len(args) > 0 /\ hasattr(CheckedOperand(mm[i], args).ty, mm[i].name)

\* C6 (three tiers): a dispatcher hit returns the handler's result and the
\* magic-method tier is not consulted; the magic-method tier decides only
\* after a dispatcher miss; and BreakGraphError naming the builtin is raised
\* exactly when the dispatcher misses and no candidate is defined on the
\* type of the operand checked for it.
C6_ThreeTiers ==
    IsCall("BuiltinVariable") =>
        LET fn == ev.callee.value
            mm == magic_method_builtin_dispatch(fn)
            hit == Dispatcher_dispatch(fn, ev.args, ev.kwargs)
            any == \E i \in 1..Len(mm) : Defined(mm, i, ev.args)
        IN  /\ hit => /\ ev.r.tier = "dispatcher"
                      /\ ev.r.kind = "return"
                      /\ ev.r.result = handler(fn, ev.args, ev.kwargs)
            /\ ev.r.tier # "dispatcher" => ~hit
            /\ (/\ ev.r.kind = "raise"
                /\ ev.r.exc = "BreakGraphError"
                /\ ev.r.reason = "Not support builtin function: " \o fn)
               <=> (~hit /\ ~any)

\* C7 (tie-break): the special method resolved is the first candidate, in
\* table order, defined on the type of the operand checked for it, it is
\* taken from that type, and it is called with the positional arguments in
\* their original order.
C7_FirstMatch ==
    (IsCall("BuiltinVariable") /\ ev.r.tier = "magic") =>
        LET mm == magic_method_builtin_dispatch(ev.callee.value)
        IN  \E i \in 1..Len(mm) :
                /\ Defined(mm, i, ev.args)
                /\ \A j \in 1..(i - 1) : ~Defined(mm, j, ev.args)
                /\ ev.r.magic.name = mm[i].name
                /\ ev.r.magic.is_reverse = mm[i].is_reverse
                /\ ev.r.magic.owner = CheckedOperand(mm[i], ev.args).ty
                /\ ev.r.code = mm[i].name
                /\ ev.r.args = ev.args

\* Only the reflected name is defined, on the type of the second of two
\* different operands, and it was resolved.
C7_Witness ==
    /\ IsCall("BuiltinVariable")
    /\ ev.r.tier = "magic"
    /\ ev.r.magic.is_reverse
    /\ Len(ev.args) = 2
    /\ ev.args[1] # ev.args[2]
    /\ ~hasattr(ev.args[1].ty, "__add__")

\* a + b evaluated by the guest language: type(a).__add__(a, b) when defined,
\* else type(b).__radd__(b, a).
DirectAdd(a, b) ==
    IF hasattr(a.ty, "__add__")
    THEN SpecialMethodBody("__add__", a, b)
    ELSE SpecialMethodBody("__radd__", b, a)

\* C8 (reflected addition end to end): add(a, b) with no dispatcher handler
\* and only b's type defining __radd__ returns the value of a + b.
C8_ReflectedAddition ==
    (/\ ev.op = "inline_return"
     /\ ev.frame.code = "__radd__"
     /\ Len(ev.frame.locals) = 2
     /\ ~hasattr(ev.frame.locals[1].ty, "__add__")
     /\ ~hasattr(ev.frame.locals[1].ty, "__radd__")) =>
        ev.r.result = DirectAdd(ev.frame.locals[1], ev.frame.locals[2])

\* C9 (same arguments): the resolved special method is called with the
\* positional and the keyword arguments the builtin was called with.
C9_SameArguments ==
    (IsCall("BuiltinVariable") /\ ev.r.tier = "magic") =>
        /\ ev.r.args = ev.args
        /\ ev.r.kwargs = ev.kwargs

\* C10 (trichotomy): a call instruction ends with a Variable, with
\* BreakGraphError, or with an internal error of the tracer; the calls a
\* guest program makes end with no other failure.
C10_Trichotomy ==
    /\ outcome.kind \in {"none", "return", "raise"}
    /\ outcome.kind = "raise" => outcome.exc \in {"BreakGraphError", "InternalError"}
    /\ (ev.op = "call_function" /\ ev.r.kind = "raise") => ev.r.exc = "BreakGraphError"

\* C12 (receiver binding): a MethodVariable calls its function Variable with
\* the bound instance first, then the positional arguments in their order,
\* and the same keyword arguments; a UserDefinedLayerVariable calls the
\* class-level __call__ as a UserDefinedFunctionVariable with the layer first,
\* under a checkpoint of the trace at the call; and a recoverable failure
\* inside the layer's __call__ raises BreakGraphError with the trace as it was
\* when the layer was called.
C12_ReceiverBinding ==
    /\ IsCall("MethodVariable") =>
            /\ ev.r.kind = "inline"
            /\ ev.r.code = ev.callee.value
            /\ ev.r.args = <<ev.callee.bound>> \o ev.args
            /\ ev.r.kwargs = ev.kwargs
    /\ IsCall("UserDefinedLayerVariable") =>
            /\ ev.r.kind = "inline"
            /\ ev.r.code = "__call__"
            /\ ev.r.args = <<ev.callee.bound>> \o ev.args
            /\ ev.r.kwargs = ev.kwargs
            /\ ev.r.checkpoint = save_memo(ev.entry)
    /\ (ev.op = "except" /\ ev.frame.code = "__call__") =>
            /\ ev.r.kind = "raise"
            /\ ev.r.exc = "BreakGraphError"
            /\ graph = ev.frame.entry

\* A method called with two operands, the first of which is not the bound
\* instance, and a keyword argument.
C12_Witness ==
    /\ IsCall("MethodVariable")
    /\ Len(ev.args) = 2
    /\ ev.args[1] # ev.callee.bound
    /\ ev.kwargs # {}
    /\ ev.r.kind = "inline"

\* C19 (internal errors are not converted): an error the except clause does
\* not name is never handled by it; while it is in flight no checkpoint has
\* been restored; each call_function it leaves raises the same error, with
\* the same message, and leaves the trace as it is; and it reaches the
\* interpreter as the error that was raised, not as BreakGraphError.
C19_InternalErrorsPropagate ==
    /\ (exc.kind # "none" /\ exc.kind \notin FallbackErrors) => restores = <<>>
    /\ ev.op = "except" => ev.cause.kind \in FallbackErrors
    /\ ev.op = "propagate" =>
            /\ ev.cause.kind \notin FallbackErrors
            /\ ev.r.kind = "raise"
            /\ ev.r.exc = ev.cause.kind
            /\ ev.r.reason = ev.cause.reason
            /\ graph = MutateAll(ev.frame.entry, ev.frame.log)
            /\ restores = <<>>
            /\ IF ev.depth = 1
               THEN /\ outcome.kind = "raise"
                    /\ outcome.exc = ev.cause.kind
                    /\ outcome.reason = ev.cause.reason
                    /\ outcome.origin = ev.cause.origin
               ELSE exc = ev.cause

\* An internal error raised two levels deep, after trace mutations, has
\* reached the interpreter.
C19_Witness ==
    /\ ev.op = "propagate"
    /\ ev.depth = 1
    /\ ev.cause.kind = "InternalError"
    /\ ev.cause.origin = 2
    /\ Len(ev.frame.log) >= 1
    /\ outcome.exc = "InternalError"

\* The class the factory is to construct for a handled value, by its shape.
ExpectedClass(value) ==
    CASE value.shape = "function" -> "UserDefinedFunctionVariable"
      [] value.shape = "generator_function" -> "UserDefinedGeneratorVariable"
      [] value.shape = "paddle_api" -> "PaddleApiVariable"
      [] value.shape = "builtin" -> "BuiltinVariable"
      [] value.shape = "method" -> "MethodVariable"
      [] value.shape = "layer" ->
            IF /\ value.module = "paddle.nn.layer.common"
               /\ ~value.sequential
               /\ ~value.forward_pre_hooks
               /\ ~value.forward_post_hooks
            THEN "PaddleLayerVariable"
            ELSE "UserDefinedLayerVariable"

PlaceOf(cls) == CHOOSE i \in 1..Len(TryOrder) : TryOrder[i] = cls

\* C14 (successor chaining for layers): PaddleLayerVariable is tried before
\* UserDefinedLayerVariable; a layer is resolved to a PaddleLayerVariable
\* exactly when it is no Sequential container, has no forward pre-hooks and
\* no forward post-hooks and the module of its class starts with
\* "paddle.nn."; any other layer is declined by PaddleLayerVariable and
\* resolved to a UserDefinedLayerVariable.
C14_LayerChaining ==
    /\ PlaceOf("PaddleLayerVariable") < PlaceOf("UserDefinedLayerVariable")
    /\ (pev.op = "resolve" /\ pev.value.shape = "layer") =>
            LET value == pev.value
                plain == /\ ~value.sequential
                         /\ ~value.forward_pre_hooks
                         /\ ~value.forward_post_hooks
                         /\ value.module \in {"paddle.nn.layer.common"}
            IN  /\ heap[pev.out].variant = "PaddleLayerVariable" <=> plain
                /\ ~plain => /\ PaddleLayerVariable_from_value(value) = "None"
                             /\ heap[pev.out].variant = "UserDefinedLayerVariable"

\* A paddle.nn layer with a forward pre-hook was resolved after a plain one.
C14_Witness ==
    /\ pev.op = "resolve"
    /\ pev.value.shape = "layer"
    /\ pev.value.module = "paddle.nn.layer.common"
    /\ pev.value.forward_pre_hooks
    /\ ~pev.value.sequential
    /\ heap[pev.out].variant = "UserDefinedLayerVariable"
    /\ \E i \in Vars : heap[i].variant = "PaddleLayerVariable"

\* The Variables a Variable refers to: its parts and the base of its tracker.
Refs(i) == {heap[i].bound_instance, heap[i].fn, heap[i].tracker.obj} \ {0}

RECURSIVE ReachFrom(_, _)
ReachFrom(S, n) ==
    IF n = 0 THEN S ELSE ReachFrom(S \cup UNION {Refs(i) : i \in S}, n - 1)

\* The Variables reachable from Variable i.
Reach(i) == ReachFrom({i}, Len(heap))

\* The Variables the last operation constructed.
Made == {i \in Vars : i > Len(pev.before)}

\* C11 (bound-method provenance): wrap_method with no instance and no
\* function Variable supplied returns a MethodVariable whose instance Variable
\* is tracked as its "__self__" and whose function Variable as its
\* "__func__"; no Variable reachable from the MethodVariable returned has a
\* Dangling tracker; and an instance or function Variable the caller supplied
\* has the tracker it was supplied with.
C11_BoundMethodProvenance ==
    /\ (pev.op = "from_value" /\ heap[pev.out].variant = "MethodVariable") =>
            LET method_var == pev.out
            IN  /\ heap[method_var].bound_instance \in Made
                /\ heap[method_var].fn \in Made
                /\ heap[heap[method_var].bound_instance].tracker
                       = GetAttrTracker(method_var, "__self__")
                /\ heap[heap[method_var].fn].tracker = GetAttrTracker(method_var, "__func__")
                /\ \A i \in Reach(method_var) : heap[i].tracker.kind # "Dangling"
    /\ (/\ pev.op = "getattr"
        /\ pev.out \in Made
        /\ heap[pev.out].variant = "MethodVariable") =>
            LET method_var == pev.out
                fn == heap[method_var].fn
            IN  /\ heap[method_var].bound_instance = heap[pev.self].proxy
                /\ heap[heap[pev.self].proxy].tracker
                       = pev.before[heap[pev.self].proxy].tracker
                /\ IF inspect_ismethoddescriptor(
                          class_getattr(host_getattr(heap[pev.self].value, pev.name), pev.name))
                   THEN /\ heap[fn].tracker.kind = "GetAttr"
                        /\ heap[fn].tracker.attr = pev.name
                        /\ heap[heap[fn].tracker.obj].tracker
                               = GetAttrTracker(heap[pev.self].proxy, "__class__")
                   ELSE heap[fn].tracker = GetAttrTracker(method_var, "__func__")
                /\ \A i \in Reach(method_var) : heap[i].tracker.kind # "Dangling"

\* A bound method of the frame was wrapped: an instance and a function
\* Variable were made for it.
C11_Witness ==
    /\ pev.op = "from_value"
    /\ heap[pev.out].variant = "MethodVariable"
    /\ Cardinality(Made) = 3
    /\ heap[heap[pev.out].bound_instance].variant = "UserDefinedLayerVariable"
    /\ heap[heap[pev.out].fn].variant = "UserDefinedFunctionVariable"

\* The frame expression of Variable i: the local it is read from and the
\* attributes read from there on.
RECURSIVE Path(_)
Path(i) ==
    IF heap[i].tracker.kind = "GetAttr"
    THEN Path(heap[i].tracker.obj) \o "." \o heap[i].tracker.attr
    ELSE heap[i].tracker.attr

\* The Variable at the end of the chain of trackers that starts at i, the
\* chain being followed for n steps at most.
RECURSIVE Root(_, _)
Root(i, n) ==
    IF heap[i].tracker.obj = 0 \/ n = 0 THEN i ELSE Root(heap[i].tracker.obj, n - 1)

\* C15 (layer guards): whatever attributes of the layer were read and
\* whatever was invoked, make_stringify_guard returns two clauses: the
\* identity of the frame expression of the layer with the layer captured,
\* then the equality of its training flag with that of the layer captured,
\* each closing over the free variables of the frame expression.
C15_LayerGuards ==
    pev.op = "guard" =>
        LET self == pev.self
            free == {heap[Root(self, Len(heap))].tracker.attr}
        IN  /\ Len(pev.guard) = 2
            /\ pev.guard[1].expr = "id(" \o Path(self) \o ") == " \o host_id(heap[self].value)
            /\ pev.guard[2].expr = Path(self) \o ".training == "
                                      \o host_training(heap[self].value)
            /\ pev.guard[1].free_vars = free
            /\ pev.guard[2].free_vars = free

\* The guard of a layer reached through an attribute, after attributes of
\* the layer were read.
C15_Witness ==
    /\ pev.op = "guard"
    /\ heap[pev.self].tracker.kind = "GetAttr"
    /\ \E n \in AttrNames : heap[heap[pev.self].proxy].attrs[n].state = "read"
    /\ Len(pev.guard) = 2

\* C16 (the proxy is the single source of truth): getattr(name) on a layer
\* whose proxy holds an entry for name, written, deleted or read before,
\* returns what the proxy holds, also when the host layer has no such
\* attribute; the host layer decides only for a name the proxy has not seen.
C16_ProxySourceOfTruth ==
    pev.op = "getattr" =>
        LET entry == pev.before[pev.before[pev.self].proxy].attrs[pev.name]
        IN  entry.state # "unseen" => pev.kind = "return" /\ pev.out = entry.var

\* C17 (provenance is rewritten at most once): no operation changes the
\* tracker of a Variable constructed before it; the only rewrite is that of
\* wrap_method on the Variables it has just made.
C17_TrackersKept ==
    /\ \A i \in 1..Len(pev.before) : heap[i].tracker = pev.before[i].tracker
    /\ \A i \in Made :
           heap[i].tracker.kind = "GetAttr" /\ heap[i].tracker.obj > i =>
               /\ heap[heap[i].tracker.obj].variant = "MethodVariable"
               /\ heap[i].tracker.attr \in {"__self__", "__func__"}

\* C18 (tracker graph): the chain of trackers from every Variable ends,
\* within as many steps as there are Variables, at a Variable read from the
\* frame: the graph has no cycle and no chain ends at a Dangling tracker.
C18_TrackerGraph ==
    \A i \in Vars :
        LET root == Root(i, Len(heap))
        IN  /\ heap[root].tracker.obj = 0
            /\ heap[root].tracker.kind = "Local"

\* A chain of three trackers: a method of the sub-layer of a layer of the
\* frame.
C18_Witness ==
    /\ \E i \in Vars :
           /\ heap[i].variant = "MethodVariable"
           /\ heap[i].tracker.kind = "GetAttr"
           /\ heap[heap[i].tracker.obj].tracker.kind = "GetAttr"
           /\ heap[Root(i, Len(heap))].tracker.kind = "Local"
           /\ Root(i, Len(heap)) # heap[i].tracker.obj

\* C20 (class provenance in the magic-method tier): the class Variable made
\* for a resolved special method wraps the type of the operand checked, the
\* first for a forward name and the last for a reflected one, and is tracked
\* as the "__class__" of that operand; the function Variable is tracked as
\* the attribute of the class Variable named by the method.
C20_ClassProvenance ==
    pev.op = "magic" =>
        LET checked == IF pev.reverse THEN pev.args[Len(pev.args)] ELSE pev.args[1]
        IN  /\ heap[pev.cls].value = get_py_type(heap[checked].value)
            /\ heap[pev.cls].tracker = GetAttrTracker(checked, "__class__")
            /\ heap[pev.out].tracker = GetAttrTracker(pev.cls, pev.name)

====
